---- MODULE Spec2Model ----
(***************************************************************************)
(* A model of the json-rs parser (src/src/json.rs).                        *)
(*                                                                         *)
(* The recursive-descent parser is modelled as a machine with an explicit  *)
(* call stack.  One frame stands for one activation of a production        *)
(* routine (parse_value, parse_array, ...); the frame's pc names the place *)
(* in the routine's body where it resumes.  Every step of the machine runs *)
(* the top frame from its pc up to the next call, return or loop head.     *)
(* The `?` operator of the source makes every error leave all callers at   *)
(* once: a failing step empties the stack and records the error.           *)
(*                                                                         *)
(* Numbers: an f64 is modelled as NaN, +/-Inf or an exact decimal          *)
(* m * 10^e.  Overflow to Inf and underflow to 0 follow the f64 exponent   *)
(* range; the rounding of the 53-bit mantissa is not modelled (the inputs  *)
(* that reach finite arithmetic have few digits, so their values are       *)
(* compared as decimals).  The sign of zero is not kept.                   *)
(***************************************************************************)
EXTENDS Integers, Sequences, FiniteSets, TLC

VARIABLES src, idx, line, col, stack, ret, res

vars == <<src, idx, line, col, stack, ret, res>>

(***************************************************************************)
(* Characters.  The source writes char and byte literals; the model names  *)
(* them by a string and maps the name to the code point.                   *)
(***************************************************************************)
Ord ==
    ("SP" :> 32) @@ ("LF" :> 10) @@ ("CR" :> 13) @@ ("TAB" :> 9) @@
    ("QT" :> 34) @@ ("BSL" :> 92) @@ ("BS" :> 8) @@ ("FF" :> 12) @@
    ("[" :> 91) @@ ("]" :> 93) @@ ("{" :> 123) @@ ("}" :> 125) @@
    (":" :> 58) @@ ("," :> 44) @@ ("-" :> 45) @@ ("+" :> 43) @@
    ("." :> 46) @@ ("/" :> 47) @@
    ("0" :> 48) @@ ("1" :> 49) @@ ("2" :> 50) @@ ("3" :> 51) @@
    ("4" :> 52) @@ ("5" :> 53) @@ ("8" :> 56) @@ ("9" :> 57) @@
    ("A" :> 65) @@ ("D" :> 68) @@ ("E" :> 69) @@ ("F" :> 70) @@
    ("a" :> 97) @@ ("b" :> 98) @@ ("e" :> 101) @@ ("f" :> 102) @@
    ("l" :> 108) @@ ("n" :> 110) @@ ("r" :> 114) @@ ("s" :> 115) @@
    ("t" :> 116) @@ ("u" :> 117) @@ ("x" :> 120) @@
    ("e_acute" :> 233) @@ ("euro" :> 8364)

Ch(name) == Ord[name]

\* A text written as a tuple of character names.
T(names) == [i \in DOMAIN names |-> Ord[names[i]]]

(***************************************************************************)
(* f64                                                                     *)
(***************************************************************************)
\* Largest and smallest decimal order of a finite, nonzero f64
\* (f64::MAX is about 1.8e308, the least subnormal about 4.9e-324).
MaxExp10 == 308
MinExp10 == -324

NaN == [k |-> "nan", m |-> 0, e |-> 0]
Inf(sign) == [k |-> "inf", m |-> sign, e |-> 0]
Zero == [k |-> "fin", m |-> 0, e |-> 0]

Abs(x) == IF x < 0 THEN -x ELSE x
Sgn(x) == IF x < 0 THEN -1 ELSE 1
Min(a, b) == IF a < b THEN a ELSE b

RECURSIVE Pow10Int(_)
Pow10Int(n) == IF n <= 0 THEN 1 ELSE 10 * Pow10Int(n - 1)

RECURSIVE NDigits(_)
NDigits(x) == IF Abs(x) < 10 THEN 1 ELSE 1 + NDigits(Abs(x) \div 10)

\* The decimal m * 10^e with the trailing zeros of m moved into e.
RECURSIVE Norm(_, _)
Norm(m, e) ==
    IF m = 0 THEN Zero
    ELSE IF Abs(m) % 10 = 0 THEN Norm(Sgn(m) * (Abs(m) \div 10), e + 1)
    ELSE [k |-> "fin", m |-> m, e |-> e]

\* Decimal order of a finite nonzero value: 10^Order <= |x| < 10^(Order+1).
Order(x) == NDigits(x.m) + x.e - 1

\* The f64 nearest to m * 10^e as far as its range goes.
Round(m, e) ==
    LET x == Norm(m, e) IN
    IF x.m = 0 THEN Zero
    ELSE IF Order(x) > MaxExp10 THEN Inf(Sgn(m))
    ELSE IF Order(x) < MinExp10 THEN Zero
    ELSE x

FAdd(a, b) ==
    IF a.k = "nan" \/ b.k = "nan" THEN NaN
    ELSE IF a.k = "inf" /\ b.k = "inf" THEN (IF a.m = b.m THEN a ELSE NaN)
    ELSE IF a.k = "inf" THEN a
    ELSE IF b.k = "inf" THEN b
    ELSE IF a.m = 0 THEN b
    ELSE IF b.m = 0 THEN a
    ELSE LET e == Min(a.e, b.e) IN
         Round(a.m * Pow10Int(a.e - e) + b.m * Pow10Int(b.e - e), e)

FMul(a, b) ==
    IF a.k = "nan" \/ b.k = "nan" THEN NaN
    ELSE IF a.k = "inf" \/ b.k = "inf"
         THEN (IF a.m = 0 \/ b.m = 0 THEN NaN ELSE Inf(Sgn(a.m) * Sgn(b.m)))
    ELSE Round(a.m * b.m, a.e + b.e)

FDiv10(a) == IF a.k = "fin" THEN Round(a.m, a.e - 1) ELSE a

\* a > 1.0
FGt1(a) ==
    IF a.k = "nan" THEN FALSE
    ELSE IF a.k = "inf" THEN a.m > 0
    ELSE /\ a.m > 0
         /\ \/ Order(a) >= 1
            \/ Order(a) = 0 /\ ~(a.m = 1 /\ a.e = 0)

FromInt(n) == Round(n, 0)

\* 10_f64.powf(x) for an x that is NaN, infinite or a whole number.
Powf10(x) ==
    IF x.k = "nan" THEN NaN
    ELSE IF x.k = "inf" THEN (IF x.m > 0 THEN Inf(1) ELSE Zero)
    ELSE IF x.m = 0 THEN FromInt(1)
    ELSE IF Order(x) > 3 THEN (IF x.m > 0 THEN Inf(1) ELSE Zero)
    ELSE Round(1, x.m * Pow10Int(x.e))

(***************************************************************************)
(* Value                                                                   *)
(***************************************************************************)
\* Every Value is a record of the same shape; t is the variant, and only
\* the field of that variant is meaningful.
MkValue(t, n, s, a, o) == [t |-> t, n |-> n, s |-> s, a |-> a, o |-> o]

Unit == MkValue("Unit", Zero, <<>>, <<>>, <<>>)
VNull == MkValue("Null", Zero, <<>>, <<>>, <<>>)
VTrue == MkValue("True", Zero, <<>>, <<>>, <<>>)
VFalse == MkValue("False", Zero, <<>>, <<>>, <<>>)
VNumber(n) == MkValue("Number", n, <<>>, <<>>, <<>>)
VString(s) == MkValue("String", Zero, s, <<>>, <<>>)
VArray(a) == MkValue("Array", Zero, <<>>, a, <<>>)
VObject(o) == MkValue("Object", Zero, <<>>, <<>>, o)

\* BTreeMap::new and BTreeMap::insert: a map from keys to values.
EmptyMap == <<>>
MapInsert(o, key, val) ==
    [k \in (DOMAIN o) \cup {key} |-> IF k = key THEN val ELSE o[k]]

(***************************************************************************)
(* The machine: the Context, the call stack, the value a callee returned   *)
(* and the result of parse.                                                *)
(***************************************************************************)
Machine(s, i, l, c, st, rv, rs) ==
    [src |-> s, idx |-> i, line |-> l, col |-> c, stack |-> st, ret |-> rv,
     res |-> rs]

\* A frame of the call stack.  fn and pc say where the activation is; the
\* other fields are the routine's locals (only those of fn are meaningful):
\*   s     parse_string s, parse_digits num_str, parse_object key
\*   word  parse_word expected        i    parse_word position, \u digit i
\*   n     \u escape n                vals parse_array vals
\*   obj   parse_object obj_vals      num  parse_number num
\*   frac  parse_number fraction      sign parse_number sign
\*   val   the Value parse_intrisic returns after its word
NewFrame(fn) ==
    [fn |-> fn, pc |-> "start", s |-> <<>>, word |-> <<>>, i |-> 0, n |-> 0,
     vals |-> <<>>, obj |-> EmptyMap, num |-> Zero, frac |-> Zero,
     sign |-> Zero, val |-> Unit]

Running == [status |-> "running", val |-> Unit, msg |-> "", arg |-> 0,
            line |-> 0, col |-> 0]

Top(m) == m.stack[Len(m.stack)]
SetTop(m, f) == [m EXCEPT !.stack[Len(m.stack)] = f]
Goto(m, pc) == SetTop(m, [Top(m) EXCEPT !.pc = pc])

\* Context::new: the cursor at the start of the bytes of the text.
ContextNew(bytes) == Machine(bytes, 0, 1, 1, <<>>, Unit, Running)

\* Context::is_next
is_next(m) == m.idx < Len(m.src)

\* Context::error: "{err} at {line}:{col}".  The message is kept as its
\* parts: the text with a hole for the expected character, that character,
\* the line and the column.  The error leaves every caller (the `?`s).
error(m, text, arg) ==
    [m EXCEPT !.stack = <<>>,
              !.res = [status |-> "err", val |-> Unit, msg |-> text,
                       arg |-> arg, line |-> m.line, col |-> m.col]]

Eof(m) == error(m, "unexpected EOF", 0)

\* Context::peek, where it succeeds (m.idx < len): the byte as a char.
peek(m) == m.src[m.idx + 1]

\* A consume that counts a line feed as any other character of the line.
consume_no_newline(m) ==
    IF ~is_next(m) THEN Eof(m)
    ELSE [m EXCEPT !.col = m.col + 1, !.idx = m.idx + 1]

\* Context::consume
consume(m) ==
    IF ~is_next(m) THEN Eof(m)
    ELSE IF peek(m) = Ch("LF")
         THEN [m EXCEPT !.line = m.line + 1, !.col = 1, !.idx = m.idx + 1]
         ELSE [m EXCEPT !.col = m.col + 1, !.idx = m.idx + 1]

Failed(m) == m.res.status = "err"

\* A call: the caller resumes at pc when the callee has returned.
Call(m, pc, fn) ==
    [m EXCEPT !.stack = Append(Goto(m, pc).stack, NewFrame(fn))]
CallWord(m, pc, word) ==
    [m EXCEPT !.stack = Append(Goto(m, pc).stack,
                               [NewFrame("parse_word") EXCEPT !.word = word])]

\* Ok(v): the activation ends; the outermost one ends parse.
Return(m, v) ==
    IF Len(m.stack) = 1
    THEN [m EXCEPT !.stack = <<>>, !.ret = v,
                   !.res = [status |-> "ok", val |-> v, msg |-> "",
                            arg |-> 0, line |-> 0, col |-> 0]]
    ELSE [m EXCEPT !.stack = SubSeq(m.stack, 1, Len(m.stack) - 1), !.ret = v]

IsWs(c) == c \in {32, 10, 13, 9}
IsDigit(c) == 48 <= c /\ c <= 57

\* parse_whitespace: one iteration of its loop.
parse_whitespace(m) ==
    IF ~is_next(m) THEN Return(m, Unit)
    ELSE IF IsWs(peek(m)) THEN consume(m)
    ELSE Return(m, Unit)

\* parse_char: ctx.next(), then the comparison; the error is raised after
\* the character was consumed.
parse_char(m, expected) ==
    IF ~is_next(m) THEN Eof(m)
    ELSE IF peek(m) = expected THEN consume(m)
    ELSE error(consume(m), "expected '{}'", expected)

\* parse_word: one iteration of its loop over the expected characters.
parse_word(m) ==
    LET f == Top(m) IN
    IF f.i >= Len(f.word) THEN Return(m, Unit)
    ELSE LET m1 == parse_char(m, f.word[f.i + 1]) IN
         IF Failed(m1) THEN m1 ELSE SetTop(m1, [f EXCEPT !.i = f.i + 1])

\* parse_intrisic
parse_intrisic(m) ==
    LET f == Top(m) IN
    IF f.pc = "start"
    THEN IF ~is_next(m) THEN Eof(m)
         ELSE IF peek(m) = Ch("t")
              THEN CallWord(SetTop(m, [f EXCEPT !.val = VTrue]), "word",
                            T(<<"t", "r", "u", "e">>))
         ELSE IF peek(m) = Ch("f")
              THEN CallWord(SetTop(m, [f EXCEPT !.val = VFalse]), "word",
                            T(<<"f", "a", "l", "s", "e">>))
         ELSE IF peek(m) = Ch("n")
              THEN CallWord(SetTop(m, [f EXCEPT !.val = VNull]), "word",
                            T(<<"n", "u", "l", "l">>))
         ELSE error(m, "expected 'true', 'false', or 'null'", 0)
    ELSE Return(m, f.val)

\* char::from_u32 of a u16: None for a surrogate code unit.
IsScalar(n) == ~(55296 <= n /\ n <= 57343)

\* The value of a hexadecimal digit of a \u escape, -1 for any other char.
HexVal(d) ==
    IF 48 <= d /\ d <= 57 THEN d - 48
    ELSE IF 65 <= d /\ d <= 70 THEN d - 55
    ELSE IF 97 <= d /\ d <= 102 THEN d - 87
    ELSE -1

\* 16_u16.pow(k)
RECURSIVE Pow16(_)
Pow16(k) == IF k <= 0 THEN 1 ELSE 16 * Pow16(k - 1)

\* The character a one-letter escape stands for, -1 if it is none.
Escape(c) ==
    IF c = Ch("QT") THEN Ch("QT")
    ELSE IF c = Ch("BSL") THEN Ch("BSL")
    ELSE IF c = Ch("/") THEN Ch("/")
    ELSE IF c = Ch("b") THEN 8
    ELSE IF c = Ch("f") THEN 12
    ELSE IF c = Ch("n") THEN 10
    ELSE IF c = Ch("r") THEN 13
    ELSE IF c = Ch("t") THEN 9
    ELSE -1

\* parse_string: the opening quote, then one ctx.next() of the loop per
\* step (a character, the character after a backslash, or one hex digit).
parse_string(m) ==
    LET f == Top(m) IN
    IF f.pc = "start"
    THEN LET m1 == parse_char(m, Ch("QT")) IN
         IF Failed(m1) THEN m1 ELSE Goto(m1, "loop")
    ELSE IF ~is_next(m) THEN Eof(m)
    ELSE
      LET c == peek(m)
          m1 == consume(m)
      IN
      IF f.pc = "loop"
      THEN IF c = Ch("QT") THEN Return(m1, VString(f.s))
           ELSE IF c = Ch("BSL") THEN Goto(m1, "esc")
           ELSE SetTop(m1, [f EXCEPT !.s = Append(f.s, c)])
      ELSE IF f.pc = "esc"
      THEN IF c = Ch("u")
           THEN SetTop(m1, [f EXCEPT !.pc = "hex", !.n = 0, !.i = 0])
           ELSE IF Escape(c) >= 0
           THEN SetTop(m1, [f EXCEPT !.pc = "loop",
                                     !.s = Append(f.s, Escape(c))])
           ELSE error(m1, "invalid character escape", 0)
      ELSE \* f.pc = "hex"
           IF HexVal(c) < 0 THEN error(m1, "invalid hex digit", 0)
           ELSE LET n == (f.n + HexVal(c) * Pow16(4 - f.i - 1)) % 65536 IN
                IF f.i < 3
                THEN SetTop(m1, [f EXCEPT !.n = n, !.i = f.i + 1])
                ELSE IF IsScalar(n)
                THEN SetTop(m1, [f EXCEPT !.pc = "loop",
                                          !.s = Append(f.s, n)])
                ELSE error(m1, "invalid character", 0)

\* One term of the second loop of parse_digits: 10^(len-i-1) * (c - 48).
digit_term(num_str, i) ==
    FMul(Powf10(FromInt(Len(num_str) - i - 1)), FromInt(num_str[i + 1] - 48))

\* parse_digits: one iteration of a loop per step, first of the loop that
\* collects the digits, then of the loop that sums them.  The f64 is
\* returned in a Number.
parse_digits(m) ==
    LET f == Top(m) IN
    IF f.pc = "start"
    THEN IF ~is_next(m) THEN Eof(m)
         ELSE IF IsDigit(peek(m))
              THEN SetTop(consume(m), [f EXCEPT !.s = Append(f.s, peek(m))])
         ELSE SetTop(m, [f EXCEPT !.pc = "sum", !.i = 0, !.num = Zero])
    ELSE IF f.i < Len(f.s)
         THEN SetTop(m, [f EXCEPT !.i = f.i + 1,
                                  !.num = FAdd(f.num, digit_term(f.s, f.i))])
    ELSE Return(m, VNumber(f.num))

\* parse_number from `if matches!(ctx.peek()?, 'e' | 'E')` on, up to the
\* call of parse_digits for the exponent.
number_exp(m) ==
    LET f == Top(m) IN
    IF ~is_next(m) THEN Eof(m)
    ELSE IF peek(m) \in {Ch("e"), Ch("E")}
    THEN LET m1 == consume(m) IN
         IF ~is_next(m1) THEN Eof(m1)
         ELSE IF peek(m1) = Ch("+")
              THEN Call(SetTop(consume(m1), [f EXCEPT !.sign = FromInt(1)]),
                        "pow", "parse_digits")
         ELSE IF peek(m1) = Ch("-")
              THEN Call(SetTop(consume(m1), [f EXCEPT !.sign = FromInt(-1)]),
                        "pow", "parse_digits")
         ELSE Call(SetTop(m1, [f EXCEPT !.sign = FromInt(1)]),
                   "pow", "parse_digits")
    ELSE Return(m, VNumber(f.num))

\* parse_number from `if ctx.peek()? == '.'` on.
number_dot(m) ==
    IF ~is_next(m) THEN Eof(m)
    ELSE IF peek(m) = Ch(".") THEN Call(consume(m), "frac", "parse_digits")
    ELSE number_exp(m)

\* The integer part of parse_number from the digits and the sign seen.
number_int(negative, digits) ==
    IF negative THEN FMul(FromInt(-1), digits) ELSE digits

\* parse_number
parse_number(m) ==
    LET f == Top(m) IN
    IF f.pc = "start"
    THEN IF ~is_next(m) THEN Eof(m)
         ELSE IF peek(m) = Ch("-") THEN Call(consume(m), "neg", "parse_digits")
         ELSE IF IsDigit(peek(m)) THEN Call(m, "int", "parse_digits")
         ELSE error(m, "expected '-' or '0'..'9'", 0)
    ELSE IF f.pc \in {"neg", "int"}
    THEN number_dot(SetTop(m, [f EXCEPT
                                 !.num = number_int(f.pc = "neg", m.ret.n)]))
    ELSE IF f.pc = "frac"
    THEN SetTop(m, [f EXCEPT !.pc = "norm", !.frac = m.ret.n])
    ELSE IF f.pc = "norm"
    THEN IF FGt1(f.frac)
         THEN SetTop(m, [f EXCEPT !.frac = FDiv10(f.frac)])
         ELSE number_exp(SetTop(m, [f EXCEPT !.num = FAdd(f.num, f.frac)]))
    ELSE \* f.pc = "pow"
         Return(m, VNumber(FMul(f.num, Powf10(FMul(f.sign, m.ret.n)))))

\* parse_array: `match ctx.next()?` after an element; m is the machine
\* after the next(), c the character it returned.
array_delim(m, c) ==
    LET f == Top(m) IN
    IF c = Ch("]") THEN Return(m, VArray(f.vals))
    ELSE IF c = Ch(",") THEN Call(m, "elem", "parse_whitespace")
    ELSE error(m, "expected ']' or ','", 0)

\* A parse_array that looks for the closing bracket before every element,
\* not only before the first.
array_elem_closing(m) ==
    IF is_next(m) /\ peek(m) = Ch("]")
    THEN Return(consume(m), VArray(Top(m).vals))
    ELSE Call(m, "push", "parse_value")

\* parse_array: `vals.push(parse_value(ctx)?)`, the call.
array_elem(m) == Call(m, "push", "parse_value")

\* parse_array
parse_array(m) ==
    LET f == Top(m) IN
    IF f.pc = "start"
    THEN LET m1 == parse_char(m, Ch("[")) IN
         IF Failed(m1) THEN m1
         ELSE IF ~is_next(m1) THEN Eof(m1)
         ELSE IF peek(m1) = Ch("]") THEN Return(consume(m1), VArray(<<>>))
         ELSE Call(m1, "elem", "parse_whitespace")
    ELSE IF f.pc = "elem" THEN array_elem(m)
    ELSE IF f.pc = "push"
    THEN Call(SetTop(m, [f EXCEPT !.vals = Append(f.vals, m.ret)]),
              "delim", "parse_whitespace")
    ELSE \* f.pc = "delim"
         IF ~is_next(m) THEN Eof(m) ELSE array_delim(consume(m), peek(m))

\* parse_object
parse_object(m) ==
    LET f == Top(m) IN
    IF f.pc = "start"
    THEN LET m1 == parse_char(m, Ch("{")) IN
         IF Failed(m1) THEN m1 ELSE Call(m1, "outer", "parse_whitespace")
    ELSE IF f.pc = "outer"
    THEN IF ~is_next(m) THEN Eof(m)
         ELSE IF peek(m) = Ch("QT") THEN Call(m, "key", "parse_string")
         ELSE IF peek(m) = Ch("}") THEN Return(consume(m), VObject(f.obj))
         ELSE error(m, "expected '\"' or '}'", 0)
    ELSE IF f.pc = "inner" THEN Call(m, "key", "parse_string")
    ELSE IF f.pc = "key"
    THEN Call(SetTop(m, [f EXCEPT !.s = m.ret.s]), "colon",
              "parse_whitespace")
    ELSE IF f.pc = "colon"
    THEN LET m1 == parse_char(m, Ch(":")) IN
         IF Failed(m1) THEN m1 ELSE Call(m1, "val", "parse_value")
    ELSE IF f.pc = "val"
    THEN Call(SetTop(m, [f EXCEPT !.obj = MapInsert(f.obj, f.s, m.ret)]),
              "delim", "parse_whitespace")
    ELSE \* f.pc = "delim"
         IF ~is_next(m) THEN Eof(m)
         ELSE IF peek(m) = Ch("}") THEN Return(consume(m), VObject(f.obj))
         ELSE IF peek(m) = Ch(",")
              THEN Call(consume(m), "inner", "parse_whitespace")
         ELSE error(consume(m), "expected '}' or ','", 0)

\* parse_value
parse_value(m) ==
    LET f == Top(m) IN
    IF f.pc = "start" THEN Call(m, "dispatch", "parse_whitespace")
    ELSE IF f.pc = "dispatch"
    THEN IF ~is_next(m) THEN Eof(m)
         ELSE IF peek(m) = Ch("{") THEN Call(m, "ret", "parse_object")
         ELSE IF peek(m) = Ch("QT") THEN Call(m, "ret", "parse_string")
         ELSE IF peek(m) = Ch("[") THEN Call(m, "ret", "parse_array")
         ELSE IF peek(m) = Ch("-") \/ IsDigit(peek(m))
              THEN Call(m, "ret", "parse_number")
         ELSE Call(m, "ret", "parse_intrisic")
    ELSE Return(m, m.ret)

\* parse: the context over the bytes of the text, about to call parse_value.
parse(bytes) ==
    [ContextNew(bytes) EXCEPT !.stack = <<NewFrame("parse_value")>>]

\* One step of the routine on top of the stack.
Step(m) ==
    LET fn == Top(m).fn IN
    IF fn = "parse_value" THEN parse_value(m)
    ELSE IF fn = "parse_whitespace" THEN parse_whitespace(m)
    ELSE IF fn = "parse_word" THEN parse_word(m)
    ELSE IF fn = "parse_intrisic" THEN parse_intrisic(m)
    ELSE IF fn = "parse_string" THEN parse_string(m)
    ELSE IF fn = "parse_digits" THEN parse_digits(m)
    ELSE IF fn = "parse_number" THEN parse_number(m)
    ELSE IF fn = "parse_array" THEN parse_array(m)
    ELSE parse_object(m)

\* The machine run from m until parse has returned.
RECURSIVE Run(_)
Run(m) == IF m.res.status # "running" THEN m ELSE Run(Step(m))

\* str::as_bytes: the UTF-8 encoding of a text (code points below 0x10000).
Utf8Char(c) ==
    IF c < 128 THEN <<c>>
    ELSE IF c < 2048 THEN <<192 + (c \div 64), 128 + (c % 64)>>
    ELSE <<224 + (c \div 4096), 128 + ((c \div 64) % 64), 128 + (c % 64)>>

RECURSIVE as_bytes(_)
as_bytes(text) ==
    IF Len(text) = 0 THEN <<>>
    ELSE IF Len(text) = 1 THEN Utf8Char(text[1])
    ELSE LET h == Len(text) \div 2 IN
         as_bytes(SubSeq(text, 1, h)) \o as_bytes(SubSeq(text, h + 1, Len(text)))

(***************************************************************************)
(* The texts parse is run on.                                              *)
(***************************************************************************)
MaxNumLen == 4
MaxArrLen == 5
MaxStrLen == 2
MaxGap == 1
LongFrac == 310

\* All sequences over alphabet of length 0..n.
SeqsUpTo(alphabet, n) == UNION {[1..k -> alphabet] : k \in 0..n}

Bracket(s) == T(<<"[">>) \o s \o T(<<"]">>)
Quote(s) == T(<<"QT">>) \o s \o T(<<"QT">>)

\* Number-like texts: every string of sign, digits, '.' and 'e', alone and
\* as the only element of an array.
NumChars == {Ch("-"), Ch("0"), Ch("1"), Ch("5"), Ch("."), Ch("e")}
NumBodies ==
    SeqsUpTo(NumChars, MaxNumLen) \cup
    { T(<<"-", "1", "2", ".", "5", "e", "2">>), T(<<"-", "1", "2", ".", "5">>),
      T(<<"1", "e", "+">>), T(<<"1", "E", "+", "1">>), T(<<"1", "e", "-", "1">>),
      T(<<"-", "1", ".", "5", "e", "1">>), T(<<"0", "0", "5">>) }
NumTexts == NumBodies \cup {Bracket(s) : s \in NumBodies}

\* Array-like texts: '[' followed by every string of brackets, commas, an
\* element and a space.
ArrChars == {Ch("["), Ch("]"), Ch(","), Ch("1"), Ch("SP")}
ArrTexts == {T(<<"[">>) \o s : s \in SeqsUpTo(ArrChars, MaxArrLen)}

\* Object-like texts: '{' followed by every string of closing braces,
\* commas, spaces and the member "a":1.
ObjTokens ==
    {T(<<"}">>), T(<<",">>), T(<<"SP">>), T(<<"QT", "a", "QT", ":", "1">>)}

\* String literals without a backslash, over ASCII and non-ASCII characters.
StrChars == {Ch("a"), Ch("e_acute"), Ch("euro")}
StrBodies == SeqsUpTo(StrChars, MaxStrLen)
StrTexts == {Quote(s) : s \in StrBodies}

\* Token lists of texts, to put whitespace between the tokens.
TokenLists ==
    { <<T(<<"[">>), T(<<"]">>)>>,
      <<T(<<"{">>), T(<<"}">>)>>,
      <<T(<<"[">>), T(<<"1">>), T(<<",">>), T(<<"2">>), T(<<"]">>)>>,
      <<T(<<"[">>), T(<<"t", "r", "u", "e">>), T(<<",">>),
        T(<<"n", "u", "l", "l">>), T(<<"]">>)>>,
      <<T(<<"{">>), T(<<"QT", "a", "QT">>), T(<<":">>), T(<<"1">>),
        T(<<"}">>)>>,
      <<T(<<"[">>), T(<<"[">>), T(<<"]">>), T(<<"]">>)>>,
      <<T(<<"QT", "a", "SP", "b", "QT">>)>> }

WsChars == {Ch("SP"), Ch("LF"), Ch("CR"), Ch("TAB")}
Gaps == SeqsUpTo(WsChars, MaxGap) \ {<<>>}

\* The tokens with gap put at the places in at (0: before the first token,
\* i: after the i-th).
RECURSIVE Spaced(_, _, _, _)
Spaced(tokens, gap, at, i) ==
    IF i > Len(tokens) THEN <<>>
    ELSE (IF i = 0 THEN <<>> ELSE tokens[i]) \o
         (IF i \in at THEN gap ELSE <<>>) \o
         Spaced(tokens, gap, at, i + 1)

Joined(tokens) == Spaced(tokens, <<>>, {}, 0)

WsTexts ==
    UNION {{Spaced(tl, g, at, 0) : g \in Gaps, at \in SUBSET (0..Len(tl))} :
              tl \in TokenLists}

ObjTexts ==
    {T(<<"{">>) \o Joined(tokens) : tokens \in SeqsUpTo(ObjTokens, MaxArrLen)}

\* Valid JSON texts whose value is a string, an array or an object, to be
\* cut short.
ValidTexts ==
    { T(<<"QT", "a", "BSL", "n", "b", "QT">>),
      T(<<"QT", "BSL", "u", "0", "0", "4", "1", "QT">>),
      T(<<"QT", "BSL", "u", "D", "8", "3", "D", "BSL", "u", "D", "E", "0",
          "0", "QT">>),
      T(<<"[", "1", ",", "2", "]">>),
      T(<<"[", "-", "1", ".", "5", "e", "+", "1", "]">>),
      T(<<"[", "[", "SP", "]", ",", "n", "u", "l", "l", "]">>),
      T(<<"{", "SP", "}">>),
      T(<<"{", "QT", "a", "QT", ":", "[", "t", "r", "u", "e", "]", ",",
          "QT", "b", "QT", ":", "QT", "x", "QT", "}">>) }

Prefixes(s) == {SubSeq(s, 1, k) : k \in 0..Len(s)}
PrefixTexts == UNION {Prefixes(v) : v \in ValidTexts}

\* '[1.' followed by LongFrac fraction digits, the first of them not 0.
LongFracText ==
    T(<<"[", "1", ".", "1">>) \o [i \in 1..(LongFrac - 1) |-> Ch("0")]
    \o T(<<"]">>)

\* Texts of the documentation and of the properties stated for parse.
ErrorPositionText ==
    T(<<"{", "LF", "SP", "SP", "QT", "a", "QT", ":", "SP", "}">>)

ExampleTexts ==
    { ErrorPositionText, LongFracText,
      T(<<"0">>), T(<<"-", "1", "2", ".", "5", "e", "2">>),
      T(<<"[", "1", ",", "]">>), T(<<"[", "1", ",", "SP", "LF", "]">>),
      T(<<"{", "QT", "a", "QT", ":", "1", ",", "}">>),
      T(<<"{", "QT", "a", "QT", ":", "1", ",", "SP", "}">>),
      T(<<"[", "{", "QT", "a", "QT", ":", "[", "1", ",", "]", "}", "]">>),
      T(<<"{", "QT", "a", "QT", ":", "1", ",", "QT", "a", "QT", ":", "2",
          "}">>),
      T(<<"n", "u", "l">>), T(<<"n", "u", "l", "l">>),
      T(<<"SP", "[", "SP", "1", "SP", ",", "SP", "2", "SP", "]", "SP">>),
      T(<<"[", "t", "r", "u", "e", ",", "f", "a", "l", "s", "e", "]">>),
      T(<<"QT", "a", "BSL", "n", "b", "QT">>),
      T(<<"QT", "BSL", "u", "0", "0", "e", "9", "QT">>),
      T(<<"QT", "BSL", "x", "QT">>),
      T(<<"QT", "e_acute", "QT">>),
      T(<<"[", "1", "e", "9", "9", "9", "]">>),
      T(<<"[", "5", "e", "-", "9", "9", "9", "]">>) }

Texts ==
    NumTexts \cup ArrTexts \cup ObjTexts \cup StrTexts \cup WsTexts
    \cup PrefixTexts
    \cup ExampleTexts

(***************************************************************************)
(* The state machine                                                       *)
(***************************************************************************)
Cur == Machine(src, idx, line, col, stack, ret, res)

Update(m) ==
    /\ src' = m.src
    /\ idx' = m.idx
    /\ line' = m.line
    /\ col' = m.col
    /\ stack' = m.stack
    /\ ret' = m.ret
    /\ res' = m.res

Start(texts) == \E text \in texts :
    LET m == parse(as_bytes(text)) IN
    /\ src = m.src
    /\ idx = m.idx
    /\ line = m.line
    /\ col = m.col
    /\ stack = m.stack
    /\ ret = m.ret
    /\ res = m.res

Init == Start(Texts)

Active(fn) == res.status = "running" /\ Top(Cur).fn = fn

ParseValue == Active("parse_value") /\ Update(parse_value(Cur))
ParseWhitespace == Active("parse_whitespace") /\ Update(parse_whitespace(Cur))
ParseWord == Active("parse_word") /\ Update(parse_word(Cur))
ParseIntrisic == Active("parse_intrisic") /\ Update(parse_intrisic(Cur))
ParseString == Active("parse_string") /\ Update(parse_string(Cur))
ParseDigits == Active("parse_digits") /\ Update(parse_digits(Cur))
ParseNumber == Active("parse_number") /\ Update(parse_number(Cur))
ParseArray == Active("parse_array") /\ Update(parse_array(Cur))
ParseObject == Active("parse_object") /\ Update(parse_object(Cur))

Next ==
    \/ ParseValue
    \/ ParseWhitespace
    \/ ParseWord
    \/ ParseIntrisic
    \/ ParseString
    \/ ParseDigits
    \/ ParseNumber
    \/ ParseArray
    \/ ParseObject

Spec == Init /\ [][Next]_vars

(***************************************************************************)
(* What the texts denote, read from the grammar                            *)
(*   '-'? digit+ ('.' digit+)? ([eE] [+-]? digit+)?                        *)
(* and not from the parser.                                                *)
(***************************************************************************)
Done == res.status # "running"

\* The index of the last digit of the run of digits that starts at i.
RECURSIVE DigitRunEnd(_, _)
DigitRunEnd(s, i) ==
    IF i <= Len(s) /\ IsDigit(s[i]) THEN DigitRunEnd(s, i + 1) ELSE i - 1

\* The parts of the longest number-like start of s.
ReadNumber(s) ==
    LET neg == Len(s) >= 1 /\ s[1] = Ch("-")
        i1 == IF neg THEN 2 ELSE 1
        i2 == DigitRunEnd(s, i1)
        hasFrac == i2 < Len(s) /\ s[i2 + 1] = Ch(".")
        f2 == IF hasFrac THEN DigitRunEnd(s, i2 + 2) ELSE i2
        hasExp == f2 < Len(s) /\ s[f2 + 1] \in {Ch("e"), Ch("E")}
        hasSign == hasExp /\ f2 + 1 < Len(s)
                   /\ s[f2 + 2] \in {Ch("+"), Ch("-")}
        x1 == f2 + 2 + (IF hasSign THEN 1 ELSE 0)
        x2 == IF hasExp THEN DigitRunEnd(s, x1) ELSE f2
    IN [neg |-> neg, int |-> SubSeq(s, i1, i2), hasFrac |-> hasFrac,
        frac |-> IF hasFrac THEN SubSeq(s, i2 + 2, f2) ELSE <<>>,
        hasExp |-> hasExp, expNeg |-> hasSign /\ s[f2 + 2] = Ch("-"),
        exp |-> IF hasExp THEN SubSeq(s, x1, x2) ELSE <<>>,
        end |-> x2]

IsNumberLiteral(s) ==
    LET r == ReadNumber(s) IN
    /\ r.int # <<>>
    /\ r.hasFrac => r.frac # <<>>
    /\ r.hasExp => r.exp # <<>>
    /\ r.end = Len(s)

\* A digit sequence is missing after '-', after '.' or after the exponent
\* mark, in a text made of number characters only.
LacksDigits(s) ==
    LET r == ReadNumber(s) IN
    /\ r.end = Len(s)
    /\ \/ r.neg /\ r.int = <<>>
       \/ r.hasFrac /\ r.frac = <<>>
       \/ r.hasExp /\ r.exp = <<>>

RECURSIVE IntOf(_)
IntOf(digits) ==
    IF digits = <<>> THEN 0
    ELSE 10 * IntOf(SubSeq(digits, 1, Len(digits) - 1))
         + (digits[Len(digits)] - 48)

\* The number a literal denotes: sign * int.frac * 10^exp.
Denoted(s) ==
    LET r == ReadNumber(s)
        x == (IF r.expNeg THEN -1 ELSE 1) * IntOf(r.exp)
    IN Norm((IF r.neg THEN -1 ELSE 1) * IntOf(r.int \o r.frac),
            x - Len(r.frac))

IsBracketed(s) ==
    Len(s) >= 2 /\ s[1] = Ch("[") /\ s[Len(s)] = Ch("]")
Inner(s) == SubSeq(s, 2, Len(s) - 1)

\* parse returned Ok(Number(n)).
ReturnedNumber(n) ==
    res.status = "ok" /\ res.val.t = "Number" /\ res.val.n = n

\* parse returned Ok(Array([Number(n)])).
ReturnedArrayOfNumber(n) ==
    /\ res.status = "ok"
    /\ res.val.t = "Array"
    /\ Len(res.val.a) = 1
    /\ res.val.a[1].t = "Number"
    /\ res.val.a[1].n = n

\* s is the tokens in order with whitespace (or nothing) before, between
\* and after them; i is the place in s, k the tokens matched so far.
RECURSIVE IsSpacingFrom(_, _, _, _)
IsSpacingFrom(s, i, tokens, k) ==
    IF i <= Len(s) /\ IsWs(s[i]) THEN IsSpacingFrom(s, i + 1, tokens, k)
    ELSE IF k = Len(tokens) THEN i = Len(s) + 1
    ELSE LET tok == tokens[k + 1] IN
         /\ i + Len(tok) - 1 <= Len(s)
         /\ SubSeq(s, i, i + Len(tok) - 1) = tok
         /\ IsSpacingFrom(s, i + Len(tok), tokens, k + 1)

IsSpacingOf(s, tokens) == IsSpacingFrom(s, 1, tokens, 0)

IsProperPrefix(s, v) == Len(s) < Len(v) /\ s = SubSeq(v, 1, Len(s))

(***************************************************************************)
(* The claims                                                              *)
(***************************************************************************)

\* C1: parse of a text that is exactly one valid number literal succeeds
\* and returns the Number the literal denotes (parse("0") is 0.0,
\* parse("-12.5e2") is -1250.0); the end of the text right after the last
\* digit is not an error.
C1_NumberLiteralParses ==
    (Done /\ IsNumberLiteral(src)) => ReturnedNumber(Denoted(src))

\* C2: a leading '-' negates the final result of parse_number, not only
\* the integer digits: the Number of [-I.F] (or [-I.FeX]) is the negation
\* of the Number of [I.F] ([I.FeX]); [-12.5] holds -12.5.
C2_MinusNegatesWholeNumber ==
    (/\ Done
     /\ IsBracketed(src)
     /\ IsNumberLiteral(Inner(src))
     /\ ReadNumber(Inner(src)).neg
     /\ ReadNumber(Inner(src)).hasFrac)
    => LET unsigned == Run(parse(Bracket(Tail(Inner(src))))).res IN
       /\ unsigned.status = "ok"
       /\ ReturnedArrayOfNumber(FMul(FromInt(-1), unsigned.val.a[1].n))

\* C3: the fraction digits d1..dk after '.' add exactly sum(d_i * 10^-i)
\* to the integer part: for a text [I.F] the array holds the Number I + 0.F
\* ([1.05] is 1.05, [1.1] and [1.10] are 1.1).
C3_FractionIsDecimalFraction ==
    (/\ Done
     /\ IsBracketed(src)
     /\ IsNumberLiteral(Inner(src))
     /\ ~ReadNumber(Inner(src)).neg
     /\ ReadNumber(Inner(src)).hasFrac
     /\ ~ReadNumber(Inner(src)).hasExp)
    => ReturnedArrayOfNumber(Denoted(Inner(src)))

\* C4: every digit sequence of a number is mandatory: a '-', a '.' or an
\* exponent mark (with its optional sign) that no digit follows makes
\* parse fail ([-], [1.], [1e], [1e+] are rejected).
C4_MissingDigitsRejected ==
    (Done /\ IsBracketed(src) /\ LacksDigits(Inner(src)))
    => res.status = "err"

\* C5: whitespace between the tokens of a text that parse accepts, before
\* the first or after the last, does not change the Value ([ ] is the
\* empty array, { } the empty object).
C5_WhitespaceInsensitive ==
    \A tokens \in TokenLists :
        LET plain == Run(parse(as_bytes(Joined(tokens)))).res IN
        (Done /\ IsSpacingOf(src, tokens) /\ plain.status = "ok")
        => (res.status = "ok" /\ res.val = plain.val)

\* C6: every proper prefix of a valid text whose value is a string, an
\* array or an object makes parse fail with the end-of-input error, also
\* when the cut is after or inside an escape.
C6_TruncatedFailsWithEof ==
    (Done /\ \E v \in ValidTexts : IsProperPrefix(src, as_bytes(v)))
    => (res.status = "err" /\ res.msg = "unexpected EOF")

\* The parser is in an array, has consumed a ',' and the whitespace after
\* it, and the next character is ']'.
TrailingCommaInArray ==
    /\ res.status = "running"
    /\ Top(Cur).fn = "parse_array"
    /\ Top(Cur).pc = "elem"
    /\ Top(Cur).vals # <<>>
    /\ is_next(Cur)
    /\ peek(Cur) = Ch("]")

\* The parser is in an object, has consumed a ',' and the whitespace after
\* it, and the next character is '}'.
TrailingCommaInObject ==
    /\ res.status = "running"
    /\ Top(Cur).fn = "parse_object"
    /\ Top(Cur).pc = "inner"
    /\ is_next(Cur)
    /\ peek(Cur) = Ch("}")

\* The messages of the errors of the structure of an array or an object: a
\* wrong delimiter where ',' / ']' / '}' or '"' / '}' is expected.
StructuralMessages ==
    {"expected ']' or ','", "expected '}' or ','", "expected '\"' or '}'"}

\* C7 as stated: a ',' followed (after optional whitespace) by ']' in an
\* array, or by '}' in an object, makes parse fail, with a
\* structural-syntax error.
C7_TrailingCommaStructuralError ==
    (TrailingCommaInArray \/ TrailingCommaInObject)
    => LET end == Run(Cur).res IN
       end.status = "err" /\ end.msg \in StructuralMessages

\* C7, amended: a ',' followed (after optional whitespace) by ']' in an
\* array, or by '}' in an object, makes parse fail and never return Ok: in
\* an array with "expected 'true', 'false', or 'null'" at the ']', in an
\* object with "expected '"'" after the '}'.
C7_TrailingCommaRejected ==
    LET end == Run(Cur).res IN
    /\ TrailingCommaInArray =>
          /\ end.status = "err"
          /\ end.msg = "expected 'true', 'false', or 'null'"
          /\ end.line = line /\ end.col = col
    /\ TrailingCommaInObject =>
          /\ end.status = "err"
          /\ end.msg = "expected '{}'" /\ end.arg = Ch("QT")
          /\ end.line = line /\ end.col = col + 1

\* A trailing comma in an array nested in an object is reached.
C7_Witness ==
    /\ TrailingCommaInArray
    /\ Len(stack) > 2
    /\ Run(Cur).res.status = "err"

\* C8: a string literal without a backslash yields the String of exactly
\* the characters between the quotes, one character of the text for one
\* character of the String, non-ASCII characters included.
C8_StringKeepsCharacters ==
    \A body \in StrBodies :
        (Done /\ src = as_bytes(Quote(body)))
        => (res.status = "ok" /\ res.val.t = "String" /\ res.val.s = body)

\* The number of line feeds among the first i bytes of s, and the place of
\* the last of them (0 if there is none).
LineFeeds(s, i) == Cardinality({j \in 1..i : s[j] = Ch("LF")})
LastLineFeed(s, i) ==
    LET at == {j \in 1..i : s[j] = Ch("LF")} IN
    IF at = {} THEN 0 ELSE CHOOSE j \in at : \A k \in at : k <= j

CursorExact ==
    /\ 0 <= idx /\ idx <= Len(src)
    /\ line = 1 + LineFeeds(src, idx)
    /\ col = 1 + (idx - LastLineFeed(src, idx))

\* The error message carries the cursor of the moment of failure.
ErrorAtCursor == res.status = "err" => (res.line = line /\ res.col = col)

\* parse("{\n  \"a\": }") fails at line 2, column 8.
ErrorPositionExample ==
    (Done /\ src = as_bytes(ErrorPositionText))
    => (res.status = "err" /\ res.line = 2 /\ res.col = 8)

\* idx never decreases; a step taken at the end of the input (peek,
\* is_next, error, a failing consume or next) leaves the cursor as it was.
CursorStep ==
    /\ idx' >= idx
    /\ idx = Len(src) => (idx' = idx /\ line' = line /\ col' = col)

\* C9: the cursor bookkeeping is exact in every state of a parse: 0 <= idx
\* <= len, idx never decreases, line is 1 + the line feeds consumed, col is
\* 1 + the bytes consumed since the last of them; nothing moves the cursor
\* at the end of the input; an error message carries the cursor of the
\* failure, and parse("{\n  \"a\": }") fails at 2:8.
C9_CursorBookkeeping ==
    /\ [](CursorExact /\ ErrorAtCursor /\ ErrorPositionExample)
    /\ [][CursorStep]_vars

\* The example text has failed, on its second line.
C9_Witness ==
    /\ src = as_bytes(ErrorPositionText)
    /\ res.status = "err"
    /\ line = 2
    /\ idx > 0

\* C10: parse terminates on every finite text, with Ok or with the first
\* error; the loop that divides the fraction by 10 while it is above 1
\* terminates for every digit sequence, however long.  The parser is
\* deterministic, so it terminates only if no step of it, an iteration of
\* one of its loops included, leaves the machine in the state it was in.
C10_ParseTerminates == res.status = "running" => Step(Cur) # Cur

====
